---- MODULE Spec2Model ----
(***************************************************************************)
(* Inventory-management core: StorageManager (src/src/storage.py),         *)
(* LogManager (src/src/logger.py) and ProductManager                       *)
(* (src/src/product_manager.py) over one SQLite database file.             *)
(*                                                                         *)
(* The database file is the shared state.  Every process in Procs holds    *)
(* its own StorageManager / LogManager / ProductManager on that file.      *)
(* Each SQL statement a method runs on its own connection is one atomic    *)
(* step; a method that runs several statements on separate connections     *)
(* (ProductManager.add_product, StorageManager.__init__) is a sequence of  *)
(* steps that other processes may interleave with.                         *)
(*                                                                         *)
(* Rows carry the columns the methods bind or read; the columns filled by  *)
(* a DEFAULT only (created_at, updated_at) and users.password_hash are     *)
(* left out.  Values are within what the engine stores (64-bit INTEGER).   *)
(***************************************************************************)
EXTENDS Integers, Sequences, FiniteSets, TLC

(* ---------------------------- bounds ---------------------------------- *)
\* rows the products table may hold before the model stops inserting
MaxProducts == 2
\* rows the logs table may hold before the model stops inserting
MaxLogs == 2
\* log entries in the scenarios of the log queries alone
MaxTrail == 3

(* ------------------------- input domains ------------------------------ *)
Procs == {"p1", "p2"}

\* Python None / a present value of an Optional
None == <<>>
Some(x) == <<x>>

\* Python numbers passed as price: an int or a float of value v
PyInt(v) == [ty |-> "int", v |-> v]
PyFloat(v) == [ty |-> "float", v |-> v]
\* Python ==  on numbers compares the value, not the type (2 == 2.0)
PyEq(a, b) == a.v = b.v

Skus == {"A1", "B2"}
Names == {"Pen"}
Prices == {PyFloat(-1), PyInt(2)}
Categories == {"Cat"}
Stocks == {-1, 3}
Descriptions == {"blue"}
UserNames == {"system", "bob"}
\* the user of the entries written through log_action directly
LogUserNames == {"bob"}

\* the arguments of one add_product call
ProductArgs ==
    {a \in [sku : Skus, name : Names, price : Prices, category : Categories,
            stock : Stocks, description : Descriptions] :
        a.price.v >= 0 \/ a.stock >= 0}

\* datetime.now(): naive local wall-clock time, second and microsecond.
\* It is not monotonic (the clock can be stepped back, local time repeats
\* an hour when daylight saving ends), so every call may see any value.
ClockValues ==
    {[s |-> 0, us |-> 0], [s |-> 0, us |-> 1], [s |-> 1, us |-> 0]}

(* ------------------------ database state ------------------------------ *)
VARIABLES
    tables,           \* names of the tables that exist in the file
    users,            \* rows of the users table
    products,         \* rows of the products table
    logs,             \* rows of the logs table
    sqlite_sequence,  \* AUTOINCREMENT counter of each table
    pc,               \* per process: position inside the running method
    args,             \* per process: arguments of its running or last
                      \* ProductManager.add_product call
    ret,              \* outcome of the call that completed last: the method
                      \* and what it returned or raised
    open_conns        \* connections that call opened and did not close

vars == <<tables, users, products, logs, sqlite_sequence, pc, args, ret,
          open_conns>>

AllTables == {"users", "products", "suppliers", "sales_orders",
              "purchase_orders", "logs"}

NoArgs == [none |-> TRUE]
NoResult == [op |-> "none", kind |-> "none", value |-> None, exc |-> ""]
Return(op, v) == [op |-> op, kind |-> "return", value |-> v, exc |-> ""]
Raise(op, e) == [op |-> op, kind |-> "raise", value |-> None, exc |-> e]

(* ------------------------- StorageManager ----------------------------- *)
\* the rows a SELECT without ORDER BY matches, as a sequence in rowid
\* order (ids are the rowids)
RECURSIVE RowsById(_)
RowsById(S) ==
    IF S = {} THEN <<>>
    ELSE LET r == CHOOSE x \in S : \A y \in S : x.id <= y.id
         IN <<r>> \o RowsById(S \ {r})

\* execute_query: fetchall of the rows the statement matches, each as a dict
execute_query(matching) == RowsById(matching)

\* REAL column affinity: an integer value is stored as a float
RealAffinity(x) == PyFloat(x.v)

InsertProductNoUnique(a) ==
    LET id == sqlite_sequence.products + 1
    IN [ok |-> TRUE, exc |-> "",
        rows |-> products \cup
            {[id |-> id, sku |-> a.sku, name |-> a.name,
              price |-> RealAffinity(a.price), category |-> a.category,
              stock |-> a.stock, description |-> a.description]},
        id |-> id]

\* INSERT INTO products, with the schema's constraints: sku UNIQUE.
\* The outcome is the new table and the new rowid, or an IntegrityError.
InsertProduct(a) ==
    IF \E r \in products : r.sku = a.sku
    THEN [ok |-> FALSE, exc |-> "IntegrityError", rows |-> products, id |-> 0]
    ELSE LET id == sqlite_sequence.products + 1
         IN [ok |-> TRUE, exc |-> "",
             rows |-> products \cup
                 {[id |-> id, sku |-> a.sku, name |-> a.name,
                   price |-> RealAffinity(a.price), category |-> a.category,
                   stock |-> a.stock, description |-> a.description]},
             id |-> id]

\* execute_update: the statement either commits, or the engine raises
\* (a constraint violation of the statement itself, or an OperationalError
\* such as "database is locked" or a full disk, drawn as `fault`); nothing
\* is caught, and a raised statement changes no row.
execute_update(outcome, fault) ==
    IF fault
    THEN [ok |-> FALSE, exc |-> "OperationalError", rows |-> {}, id |-> 0]
    ELSE outcome

\* execute_update closes its connection at line 188, after execute and
\* commit: a statement that raises leaves the connection open, and only
\* the collection of the Connection object closes it later
Unclosed(out) == IF out.ok THEN 0 ELSE 1

add_product_no_description(a, fault) ==
    execute_update(InsertProduct([a EXCEPT !.description = ""]), fault)

\* StorageManager.add_product
add_product(a, fault) == execute_update(InsertProduct(a), fault)

\* datetime.isoformat(): the text of a timestamp, as character codes.
\* The date and the hour and minute are the same for every value of the
\* model and are left out; the seconds are followed by "." and the
\* microseconds only when the microseconds are not zero.
Digit(d) == 48 + d
Dot == 46
isoformat(t) ==
    IF t.us = 0 THEN <<Digit(t.s)>> ELSE <<Digit(t.s), Dot, Digit(t.us)>>

\* comparison of two TEXT values (BINARY collation, memcmp): the first
\* differing character decides, a proper prefix sorts first
RECURSIVE TextLess(_, _)
TextLess(x, y) ==
    IF Len(y) = 0 THEN FALSE
    ELSE IF Len(x) = 0 THEN TRUE
    ELSE IF Head(x) # Head(y) THEN Head(x) < Head(y)
    ELSE TextLess(Tail(x), Tail(y))

\* INSERT INTO logs (user, timestamp, action, details)
InsertLog(user, timestamp, action, details) ==
    LET id == sqlite_sequence.logs + 1
    IN [ok |-> TRUE, exc |-> "",
        rows |-> logs \cup {[id |-> id, user |-> user, timestamp |-> timestamp,
                             action |-> action, details |-> details]},
        id |-> id]

\* StorageManager.add_log; now is the value datetime.now() returns
add_log(user, action, details, now, fault) ==
    LET timestamp == isoformat(now)
    IN execute_update(InsertLog(user, timestamp, action, details), fault)

\* the orders in which SELECT ... ORDER BY timestamp DESC may return the
\* rows: every arrangement with non-increasing timestamps (the order of
\* rows with equal timestamps is the engine's choice)
OrderByTimestampDesc(rows) ==
    LET n == Cardinality(rows)
    IN {s \in [1..n -> rows] :
            /\ \A i, j \in 1..n : i # j => s[i] # s[j]
            /\ \A i \in 1..n : \A j \in 1..n :
                   i < j => ~TextLess(s[i].timestamp, s[j].timestamp)}

\* LIMIT n: the first n rows; a negative n is no limit
Limit(s, n) ==
    IF n < 0 \/ n >= Len(s) THEN s ELSE SubSeq(s, 1, n)

\* StorageManager.get_logs: the results the query may return
get_logs(limit) == {Limit(s, limit) : s \in OrderByTimestampDesc(logs)}

\* LogManager.log_action
log_action(user, action, details, now, fault) ==
    add_log(user, action, details, now, fault)

\* LogManager.get_recent_logs
get_recent_logs(limit) == get_logs(limit)

\* the Python slice s[:n]: the first n elements, and for a negative n all
\* but the last -n
PySlice(s, n) ==
    LET stop == IF n >= 0 THEN n ELSE Len(s) + n
    IN IF stop >= Len(s) THEN s
       ELSE IF stop <= 0 THEN <<>>
       ELSE SubSeq(s, 1, stop)

get_logs_by_user_one_window(username, limit) ==
    {LET Match(log) == log.user = username
         user_logs == SelectSeq(all_logs, Match)
     IN PySlice(user_logs, limit) : all_logs \in get_recent_logs(limit)}

\* LogManager.get_logs_by_user: the results the call may return
get_logs_by_user(username, limit) ==
    {LET Match(log) == log.user = username
         user_logs == SelectSeq(all_logs, Match)
     IN PySlice(user_logs, limit) : all_logs \in get_recent_logs(limit * 2)}

get_product_by_id_ge(product_id) ==
    LET results == execute_query({r \in products : r.id >= product_id})
    IN IF Len(results) > 0 THEN Some(results[1]) ELSE None

get_product_by_id(product_id) ==
    LET results == execute_query({r \in products : r.id = product_id})
    IN IF Len(results) > 0 THEN Some(results[1]) ELSE None

get_product_by_sku_name(sku) ==
    LET results == execute_query({r \in products : r.name = sku})
    IN IF Len(results) > 0 THEN Some(results[1]) ELSE None

get_product_by_sku(sku) ==
    LET results == execute_query({r \in products : r.sku = sku})
    IN IF Len(results) > 0 THEN Some(results[1]) ELSE None

\* the ASCII code of a character of the texts of the model
Ord(c) ==
    CASE c = "%" -> 37 [] c = "1" -> 49 [] c = "2" -> 50
      [] c = "A" -> 65 [] c = "B" -> 66 [] c = "C" -> 67 [] c = "P" -> 80
      [] c = "Z" -> 90 [] c = "_" -> 95 [] c = "a" -> 97 [] c = "e" -> 101
      [] c = "n" -> 110 [] c = "p" -> 112 [] c = "t" -> 116

\* a Python str as the sequence of its characters' codes
Codes(str) == [i \in 1..Len(str) |-> Ord(SubSeq(str, i, i))]

\* the pattern characters of LIKE
Percent == 37
Underscore == 95

\* LIKE compares ASCII letters without regard to case
Fold(c) == IF c \in 65..90 THEN c + 32 ELSE c

\* text LIKE pattern, no ESCAPE clause: % matches any run of characters,
\* _ matches any one character, any other character matches itself
RECURSIVE Like(_, _)
Like(text, pattern) ==
    IF Len(pattern) = 0 THEN Len(text) = 0
    ELSE IF Head(pattern) = Percent
    THEN \/ Like(text, Tail(pattern))
         \/ Len(text) > 0 /\ Like(Tail(text), pattern)
    ELSE /\ Len(text) > 0
         /\ Head(pattern) = Underscore \/ Fold(Head(text)) = Fold(Head(pattern))
         /\ Like(Tail(text), Tail(pattern))

\* the orders in which SELECT ... ORDER BY name may return the rows
OrderByName(rows) ==
    LET n == Cardinality(rows)
    IN {s \in [1..n -> rows] :
            /\ \A i, j \in 1..n : i # j => s[i] # s[j]
            /\ \A i \in 1..n : \A j \in 1..n :
                   i < j => ~TextLess(Codes(s[j].name), Codes(s[i].name))}

\* StorageManager.search_products: the results the query may return
search_products(search_term) ==
    LET pattern == <<Percent>> \o Codes(search_term) \o <<Percent>>
    IN OrderByName({r \in products :
                       \/ Like(Codes(r.name), pattern)
                       \/ Like(Codes(r.sku), pattern)
                       \/ Like(Codes(r.category), pattern)})

\* ProductManager.search_products
PMSearchProducts(search_term) == search_products(search_term)

(* ------------------------------ Init ---------------------------------- *)
\* a fresh store: the file holds no table yet and no process has
\* constructed its StorageManager
Init ==
    /\ tables = {}
    /\ users = {}
    /\ products = {}
    /\ logs = {}
    /\ sqlite_sequence = [users |-> 0, products |-> 0, logs |-> 0]
    /\ pc = [p \in Procs |-> "new"]
    /\ args = [p \in Procs |-> NoArgs]
    /\ ret = NoResult
    /\ open_conns = 0

(* -------------------- StorageManager.__init__ ------------------------- *)
InitializeTablesRecreate(p) ==
    /\ pc[p] \in {"new", "idle"}
    /\ tables' = tables \cup AllTables
    /\ logs' = {}
    /\ pc' = [pc EXCEPT ![p] = "seed"]
    /\ args' = [args EXCEPT ![p] = NoArgs]
    /\ UNCHANGED <<users, products, sqlite_sequence, ret, open_conns>>

\* _ensure_database_exists and _initialize_tables: CREATE TABLE IF NOT
\* EXISTS for the six tables, committed; existing rows are kept.
\* A process constructs its first StorageManager or another one on the
\* same file.
InitializeTables(p) ==
    /\ pc[p] \in {"new", "idle"}
    /\ tables' = tables \cup AllTables
    /\ pc' = [pc EXCEPT ![p] = "seed"]
    /\ args' = [args EXCEPT ![p] = NoArgs]
    /\ UNCHANGED <<users, products, logs, sqlite_sequence, ret, open_conns>>

SeedCountInverted(p) ==
    /\ pc[p] = "seed"
    /\ LET count == Cardinality(users)
       IN IF count # 0
          THEN /\ pc' = [pc EXCEPT ![p] = "seed_insert"]
               /\ UNCHANGED <<ret, open_conns>>
          ELSE /\ pc' = [pc EXCEPT ![p] = "idle"]
               /\ ret' = Return("init", None)
               /\ open_conns' = 0
    /\ UNCHANGED <<tables, users, products, logs, sqlite_sequence, args>>

\* _seed_admin_user, SELECT COUNT(*) FROM users and the test count == 0
SeedCount(p) ==
    /\ pc[p] = "seed"
    /\ LET count == Cardinality(users)
       IN IF count = 0
          THEN /\ pc' = [pc EXCEPT ![p] = "seed_insert"]
               /\ UNCHANGED <<ret, open_conns>>
          ELSE /\ pc' = [pc EXCEPT ![p] = "idle"]
               /\ ret' = Return("init", None)
               /\ open_conns' = 0
    /\ UNCHANGED <<tables, users, products, logs, sqlite_sequence, args>>

\* _seed_admin_user, INSERT INTO users and commit; username is UNIQUE
SeedInsert(p) ==
    /\ pc[p] = "seed_insert"
    /\ IF \E u \in users : u.username = "admin"
       THEN /\ pc' = [pc EXCEPT ![p] = "new"]
            /\ ret' = Raise("init", "IntegrityError")
            /\ open_conns' = 1
            /\ UNCHANGED <<users, sqlite_sequence>>
       ELSE /\ users' = users \cup
                  {[id |-> sqlite_sequence.users + 1, username |-> "admin",
                    role |-> "admin"]}
            /\ sqlite_sequence' =
                  [sqlite_sequence EXCEPT !.users = sqlite_sequence.users + 1]
            /\ pc' = [pc EXCEPT ![p] = "idle"]
            /\ ret' = Return("init", None)
            /\ open_conns' = 0
    /\ UNCHANGED <<tables, products, logs, args>>

(* ------------------ StorageManager.add_product ------------------------ *)
\* a direct call of the storage method by a caller holding a StorageManager
StorageAddProduct(p, a, fault) ==
    /\ pc[p] = "idle"
    /\ LET out == add_product(a, fault)
       IN IF out.ok
          THEN /\ Cardinality(products) < MaxProducts
               /\ products' = out.rows
               /\ sqlite_sequence' = [sqlite_sequence EXCEPT !.products = out.id]
               /\ ret' = Return("st_add", Some(out.id))
               /\ open_conns' = Unclosed(out)
          ELSE /\ ret' = Raise("st_add", out.exc)
               /\ open_conns' = Unclosed(out)
               /\ UNCHANGED <<products, sqlite_sequence>>
    /\ args' = [args EXCEPT ![p] = NoArgs]
    /\ UNCHANGED <<tables, users, logs, pc>>

(* --------------------- LogManager.log_action -------------------------- *)
\* an audit entry written by a caller other than ProductManager
LogAction(p, user, now, fault) ==
    /\ pc[p] = "idle"
    /\ LET out == log_action(user, "LOGIN", "", now, fault)
       IN IF out.ok
          THEN /\ Cardinality(logs) < MaxLogs
               /\ logs' = out.rows
               /\ sqlite_sequence' = [sqlite_sequence EXCEPT !.logs = out.id]
               /\ ret' = Return("log", None)
               /\ open_conns' = Unclosed(out)
          ELSE /\ ret' = Raise("log", out.exc)
               /\ open_conns' = Unclosed(out)
               /\ UNCHANGED <<logs, sqlite_sequence>>
    /\ args' = [args EXCEPT ![p] = NoArgs]
    /\ UNCHANGED <<tables, users, products, pc>>

(* ---------------------- StorageManager.add_log ------------------------ *)
\* a direct call of the storage method; it returns the id of the new row
AddLog(p, user, now, fault) ==
    /\ pc[p] = "idle"
    /\ LET out == add_log(user, "LOGIN", "", now, fault)
       IN IF out.ok
          THEN /\ Cardinality(logs) < MaxTrail
               /\ logs' = out.rows
               /\ sqlite_sequence' = [sqlite_sequence EXCEPT !.logs = out.id]
               /\ ret' = Return("add_log", Some(out.id))
               /\ open_conns' = Unclosed(out)
          ELSE /\ ret' = Raise("add_log", out.exc)
               /\ open_conns' = Unclosed(out)
               /\ UNCHANGED <<logs, sqlite_sequence>>
    /\ args' = [args EXCEPT ![p] = NoArgs]
    /\ UNCHANGED <<tables, users, products, pc>>

(* ------------------- ProductManager.add_product ----------------------- *)
\* lines 50-53: price < 0 or stock < 0 raises ValueError
InvalidPriceOnly(a) == a.price.v < 0
Invalid(a) == a.price.v < 0 \/ a.stock < 0

\* the arguments of a call, kept in args[p] while it runs and after it ended
CallArgs(a, user, product_id) ==
    [a |-> a, user |-> user, product_id |-> product_id]

PMAddProductValidateFirst(p, a, user) ==
    /\ pc[p] = "idle"
    /\ args' = [args EXCEPT ![p] = CallArgs(a, user, 0)]
    /\ LET existing == get_product_by_sku(a.sku)
       IN IF Invalid(a)
          THEN /\ ret' = Raise("pm_add", "ValueError")
               /\ open_conns' = 0
               /\ UNCHANGED pc
          ELSE IF existing # None
          THEN /\ ret' = Return("pm_add", None)
               /\ open_conns' = 0
               /\ UNCHANGED pc
          ELSE /\ pc' = [pc EXCEPT ![p] = "insert"]
               /\ UNCHANGED <<ret, open_conns>>
    /\ UNCHANGED <<tables, users, products, logs, sqlite_sequence>>

\* lines 44-53: the lookup by SKU, then the validation of price and stock
PMAddProduct(p, a, user) ==
    /\ pc[p] = "idle"
    /\ args' = [args EXCEPT ![p] = CallArgs(a, user, 0)]
    /\ LET existing == get_product_by_sku(a.sku)
       IN IF existing # None
          THEN /\ ret' = Return("pm_add", None)
               /\ open_conns' = 0
               /\ UNCHANGED pc
          ELSE IF Invalid(a)
          THEN /\ ret' = Raise("pm_add", "ValueError")
               /\ open_conns' = 0
               /\ UNCHANGED pc
          ELSE /\ pc' = [pc EXCEPT ![p] = "insert"]
               /\ UNCHANGED <<ret, open_conns>>
    /\ UNCHANGED <<tables, users, products, logs, sqlite_sequence>>

\* line 56: storage.add_product
PMInsert(p, fault) ==
    /\ pc[p] = "insert"
    /\ LET out == add_product(args[p].a, fault)
       IN IF out.ok
          THEN /\ Cardinality(products) < MaxProducts
               /\ products' = out.rows
               /\ sqlite_sequence' = [sqlite_sequence EXCEPT !.products = out.id]
               /\ pc' = [pc EXCEPT ![p] = "log"]
               /\ args' = [args EXCEPT ![p].product_id = out.id]
               /\ UNCHANGED <<ret, open_conns>>
          ELSE /\ pc' = [pc EXCEPT ![p] = "idle"]
               /\ ret' = Raise("pm_add", out.exc)
               /\ open_conns' = Unclosed(out)
               /\ UNCHANGED <<products, sqlite_sequence, args>>
    /\ UNCHANGED <<tables, users, logs>>

\* the f-string of line 62
AddedDetails(name, sku) == "Added product: " \o name \o " (SKU: " \o sku \o ")"

\* lines 59-65: logger.log_action, then return product_id
PMLog(p, now, fault) ==
    /\ pc[p] = "log"
    /\ LET out == log_action(args[p].user, "ADD_PRODUCT",
                             AddedDetails(args[p].a.name, args[p].a.sku),
                             now, fault)
       IN IF out.ok
          THEN /\ Cardinality(logs) < MaxLogs
               /\ logs' = out.rows
               /\ sqlite_sequence' = [sqlite_sequence EXCEPT !.logs = out.id]
               /\ ret' = Return("pm_add", Some(args[p].product_id))
               /\ open_conns' = Unclosed(out)
          ELSE /\ ret' = Raise("pm_add", out.exc)
               /\ open_conns' = Unclosed(out)
               /\ UNCHANGED <<logs, sqlite_sequence>>
    /\ pc' = [pc EXCEPT ![p] = "idle"]
    /\ UNCHANGED <<tables, users, products, args>>

\* one step of process p
Step(p) ==
    \/ InitializeTables(p)
    \/ SeedCount(p)
    \/ SeedInsert(p)
    \/ \E a \in ProductArgs, fault \in BOOLEAN : StorageAddProduct(p, a, fault)
    \/ \E user \in LogUserNames, now \in ClockValues, fault \in BOOLEAN :
           LogAction(p, user, now, fault)
    \/ \E a \in ProductArgs, user \in UserNames : PMAddProduct(p, a, user)
    \/ \E fault \in BOOLEAN : PMInsert(p, fault)
    \/ \E now \in ClockValues, fault \in BOOLEAN : PMLog(p, now, fault)

\* several processes on the same database file, their statements interleaved
Next == \E p \in Procs : Step(p)

Spec == Init /\ [][Next]_vars

\* the single-threaded, synchronous use of section 5 of the specification:
\* one process, each call running to its end before the next one starts
NextSequential == Step("p1")

SpecSequential == Init /\ [][NextSequential]_vars

\* two ProductManagers on the same database file and nothing else: each
\* process constructs its managers and calls ProductManager.add_product
StepManager(p) ==
    \/ InitializeTables(p)
    \/ SeedCount(p)
    \/ SeedInsert(p)
    \/ \E a \in ProductArgs, user \in UserNames : PMAddProduct(p, a, user)
    \/ \E fault \in BOOLEAN : PMInsert(p, fault)
    \/ \E now \in ClockValues, fault \in BOOLEAN : PMLog(p, now, fault)

NextManagers == \E p \in Procs : StepManager(p)

SpecManagers == Init /\ [][NextManagers]_vars

\* the calls that write products, from several processes: construction,
\* StorageManager.add_product and ProductManager.add_product
StepWriter(p) ==
    \/ InitializeTables(p)
    \/ SeedCount(p)
    \/ SeedInsert(p)
    \/ \E a \in ProductArgs, fault \in BOOLEAN : StorageAddProduct(p, a, fault)
    \/ \E a \in ProductArgs, user \in UserNames : PMAddProduct(p, a, user)
    \/ \E fault \in BOOLEAN : PMInsert(p, fault)
    \/ \E now \in ClockValues, fault \in BOOLEAN : PMLog(p, now, fault)

NextWriters == \E p \in Procs : StepWriter(p)

SpecWriters == Init /\ [][NextWriters]_vars

\* one process that constructs its managers and writes log entries of two
\* users, the scenario of the log queries of LogManager
StepTrail(p) ==
    \/ InitializeTables(p)
    \/ SeedCount(p)
    \/ SeedInsert(p)
    \/ \E user \in UserNames, now \in ClockValues, fault \in BOOLEAN :
           AddLog(p, user, now, fault)

NextTrail == StepTrail("p1")

SpecTrail == Init /\ [][NextTrail]_vars

(* ============================ properties ============================== *)
\* the identifiers probed: ids from 0 to one past the largest the table
\* can hold, the SKUs of the model and one that is never stored
ProbeIds == 0..(MaxProducts + 1)
ProbeSkus == Skus \cup {"NONEXISTENT"}

\* some row of the products table has this SKU
SkuStored(sku) == \E r \in products : r.sku = sku

\* C1: in every reachable state, under every interleaving of
\* StorageManager.add_product and ProductManager.add_product calls, no two
\* rows of the products table have the same SKU.
C1_SkuUnique ==
    \A r1 \in products : \A r2 \in products : r1.sku = r2.sku => r1 = r2

\* a second insert of a stored SKU was attempted and the engine refused it
C1_Witness ==
    /\ ret.exc = "IntegrityError"
    /\ ret.op \in {"st_add", "pm_add"}
    /\ Cardinality(products) = 2

\* what every step that runs lines 44-53 of ProductManager.add_product for
\* process p shows: p was between calls, and the step either ended an
\* add_product call or went on to the insert
PMCallStep(p) ==
    /\ pc[p] = "idle"
    /\ pc'[p] = "insert" \/ ret'.op = "pm_add"

\* the Optional row `found` is present and carries id and the values of a;
\* numbers are compared as Python's == compares them
StoredAs(found, id, a) ==
    /\ found # None
    /\ found[1].id = id
    /\ found[1].sku = a.sku
    /\ found[1].name = a.name
    /\ PyEq(found[1].price, a.price)
    /\ found[1].category = a.category
    /\ found[1].stock = a.stock
    /\ found[1].description = a.description

\* C2: for arguments with price >= 0 and stock >= 0 whose SKU is not
\* stored, ProductManager.add_product passes the lookup and the validation,
\* inserts a row under an id no row had, and returns that id; right after,
\* get_product_by_sku(sku) and get_product(id) return a product whose sku,
\* name, price, category, stock and description are the values passed in.
\* (Statements on which the engine itself fails are outside the claim.)
C2_AddThenGet ==
    [][\A p \in Procs :
          /\ PMCallStep(p) =>
                \A a \in ProductArgs : \A user \in UserNames :
                    (/\ ~SkuStored(a.sku)
                     /\ a.price.v >= 0
                     /\ a.stock >= 0
                     /\ PMAddProduct(p, a, user)) => pc'[p] = "insert"
          /\ (/\ pc[p] = "insert"
              /\ ~SkuStored(args[p].a.sku)
              /\ PMInsert(p, FALSE)) =>
                /\ pc'[p] = "log"
                /\ args'[p].product_id \notin {r.id : r \in products}
                /\ args'[p].product_id > 0
          /\ pc[p] = "log" =>
                \A a \in ProductArgs : \A id \in ProbeIds :
                    (/\ a = args[p].a
                     /\ id = args[p].product_id
                     /\ \E now \in ClockValues : PMLog(p, now, FALSE)) =>
                        /\ ret' = Return("pm_add", Some(id))
                        /\ StoredAs(get_product_by_sku(a.sku), id, a)'
                        /\ StoredAs(get_product_by_id(id), id, a)']_vars

\* a call has returned the id of the row it inserted, and the price it
\* was given as an int is stored as a float
C2_Witness ==
    /\ ret.op = "pm_add"
    /\ ret.kind = "return"
    /\ ret.value # None
    /\ \E r \in products :
          Some(r.id) = ret.value /\ r.price = PyFloat(2) /\ r.description = "blue"

\* C3: ProductManager.add_product called with a SKU that is already stored
\* returns None, and the call ends there having written nothing: the
\* products table and the logs table are the same after it as before.
C3_DuplicateReturnsNoneNoWrite ==
    [][\A p \in Procs : PMCallStep(p) =>
          \A a \in ProductArgs : \A user \in UserNames :
          (SkuStored(a.sku) /\ PMAddProduct(p, a, user)) =>
              /\ ret' = Return("pm_add", None)
              /\ pc'[p] = "idle"
              /\ products' = products
              /\ logs' = logs]_vars

\* a call with a stored SKU has returned None
C3_Witness ==
    /\ ret = Return("pm_add", None)
    /\ products # {}

\* C4 as claimed: ProductManager.add_product called with a negative price
\* or a negative stock raises the validation error and writes nothing.
C4_NegativeAlwaysRaises ==
    [][\A p \in Procs : PMCallStep(p) =>
          \A a \in ProductArgs : \A user \in UserNames :
          (/\ a.price.v < 0 \/ a.stock < 0
           /\ PMAddProduct(p, a, user)) =>
              /\ ret' = Raise("pm_add", "ValueError")
              /\ pc'[p] = "idle"
              /\ products' = products
              /\ logs' = logs]_vars

\* C4: ProductManager.add_product called with a negative price or a
\* negative stock writes nothing: the products and logs tables are
\* unchanged.  It raises the validation error when the SKU is not stored,
\* and returns None when the SKU is already stored.
C4_NegativeWritesNothing ==
    [][\A p \in Procs : PMCallStep(p) =>
          \A a \in ProductArgs : \A user \in UserNames :
          (/\ a.price.v < 0 \/ a.stock < 0
           /\ PMAddProduct(p, a, user)) =>
              /\ ret' = IF SkuStored(a.sku) THEN Return("pm_add", None)
                                              ELSE Raise("pm_add", "ValueError")
              /\ pc'[p] = "idle"
              /\ products' = products
              /\ logs' = logs]_vars

\* a call has raised the validation error
C4_Witness ==
    /\ ret = Raise("pm_add", "ValueError")
    /\ pc["p1"] = "idle"

\* C5: in every reachable state every row of the products table has
\* price >= 0 and stock >= 0, whichever of ProductManager.add_product and
\* StorageManager.add_product inserted it.
C5_NonNegative ==
    \A r \in products : r.price.v >= 0 /\ r.stock >= 0

\* the text sub occurs in the text s
Contains(s, sub) ==
    \E i \in 1..(Len(s) - Len(sub) + 1) : SubSeq(s, i, i + Len(sub) - 1) = sub

\* C6: immediately after a ProductManager.add_product call has succeeded,
\* whatever entries the log already holds and whatever their timestamps,
\* get_recent_logs(1) returns exactly one entry, with action
\* "ADD_PRODUCT", the user of the call, and details containing the SKU.
C6_LatestLogIsTheAdd ==
    [][\A p \in Procs : pc[p] = "log" =>
       \A now \in ClockValues : \A user \in UserNames : \A sku \in Skus :
          (/\ user = args[p].user
           /\ sku = args[p].a.sku
           /\ PMLog(p, now, FALSE)) =>
              (\A r \in get_recent_logs(1) :
                  /\ Len(r) = 1
                  /\ r[1].action = "ADD_PRODUCT"
                  /\ r[1].user = user
                  /\ Contains(r[1].details, sku))']_vars

\* C7: every ProductManager.add_product call that inserted its product
\* row ends with exactly one new log entry, of action "ADD_PRODUCT",
\* written - so that between calls the entries written and the rows
\* inserted by ProductManager are equal in number - also when a
\* storage-layer error ends the call.
C7_OneAuditEntryPerCreation ==
    [][\A p \in Procs :
          (pc[p] = "log" /\ pc'[p] = "idle") =>
              /\ Cardinality(logs') = Cardinality(logs) + 1
              /\ \A e \in logs' \ logs : e.action = "ADD_PRODUCT"]_vars

\* C8: a duplicate SKU on ProductManager.add_product is never signalled by
\* an error: of ProductManager.add_product calls with the same SKU, in any
\* interleaving of their lookup and insert steps, none ends by raising the
\* engine's constraint violation.
C8_DuplicateNeverRaises ==
    ~(ret.op = "pm_add" /\ ret.kind = "raise" /\ ret.exc = "IntegrityError")

\* C9: once an initialization has completed on the store, the users
\* table holds exactly one row, username "admin" and role "admin", and
\* keeps exactly that row whatever initializations, product and log
\* operations follow.
C9_OneAdminRow ==
    /\ Cardinality(users) <= 1
    /\ ret # NoResult =>
          /\ Cardinality(users) = 1
          /\ \A u \in users : u.username = "admin" /\ u.role = "admin"

\* a later initialization completed on a store that already holds
\* products and log entries
C9_Witness ==
    /\ ret = Return("init", None)
    /\ products # {}
    /\ logs # {}
    /\ Cardinality(users) = 1

\* C10: get_product_by_id and get_product_by_sku return None for every id
\* and SKU no stored product has, and the stored product for every id and
\* SKU that one has.
C10_LookupAbsentOrStored ==
    /\ \A id \in ProbeIds :
          IF \E r \in products : r.id = id
          THEN \E r \in products : r.id = id /\ get_product_by_id(id) = Some(r)
          ELSE get_product_by_id(id) = None
    /\ \A sku \in ProbeSkus :
          IF SkuStored(sku)
          THEN \E r \in products : r.sku = sku /\ get_product_by_sku(sku) = Some(r)
          ELSE get_product_by_sku(sku) = None

\* one product is stored, so stored and missing ids and SKUs are both probed
C10_Witness ==
    /\ Cardinality(products) = 1
    /\ \E sku \in Skus : get_product_by_sku(sku) # None
    /\ \E sku \in Skus : get_product_by_sku(sku) = None
    /\ get_product_by_id(1) # None
    /\ get_product_by_id(2) = None

\* C13: the log is append-only. No step of any operation (log_action,
\* add_product of either class, construction of another StorageManager on
\* the same file) removes or changes a row of the logs table: every row of
\* the table before the step is a row of it after the step, with the same
\* id, user, timestamp, action and details, and a row the step adds takes an
\* id that no earlier row has.
C13_LogAppendOnly ==
    [][/\ \A e \in logs : e \in logs'
       /\ \A e \in logs' \ logs : \A f \in logs : e.id # f.id]_vars

\* a StorageManager was constructed again on a file whose log holds two
\* entries
C13_Witness ==
    /\ ret = Return("init", None)
    /\ Cardinality(logs) = 2
    /\ \E e \in logs : e.action = "LOGIN"
    /\ \E e \in logs : e.action = "ADD_PRODUCT"

\* C16: ProductManager.add_product called with a SKU that is stored and
\* with a negative price or a negative stock returns None, raises no
\* ValueError and writes neither a product nor a log entry.
C16_DuplicateBeforeValidation ==
    [][\A p \in Procs : PMCallStep(p) =>
          \A a \in ProductArgs : \A user \in UserNames :
          (/\ SkuStored(a.sku)
           /\ (a.price.v < 0 \/ a.stock < 0)
           /\ PMAddProduct(p, a, user)) =>
              /\ ret' = Return("pm_add", None)
              /\ products' = products
              /\ logs' = logs
              /\ sqlite_sequence' = sqlite_sequence]_vars

\* such a call has ended: its SKU is stored, one of its numbers is negative
\* and it returned None
C16_Witness ==
    /\ pc["p1"] = "idle"
    /\ args["p1"] # NoArgs
    /\ SkuStored(args["p1"].a.sku)
    /\ args["p1"].a.price.v < 0 \/ args["p1"].a.stock < 0
    /\ ret = Return("pm_add", None)

(* ------------------------- the log queries ---------------------------- *)
Min(a, b) == IF a < b THEN a ELSE b
Range(s) == {s[i] : i \in 1..Len(s)}

\* the limits and the user names the queries are asked with; "BOB" differs
\* from a stored user name in case only
QueryLimits == 0..(MaxTrail + 1)
AnyLimits == (0 - 1)..(MaxTrail + 1)
QueryUsers == UserNames \cup {"BOB"}

\* the arrangements of the k entries of the log with the greatest
\* timestamps (of all entries when the log holds fewer), latest first
MostRecent(k) ==
    LET n == Min(k, Cardinality(logs))
    IN {w \in [1..n -> logs] :
            /\ \A i, j \in 1..n : i # j => w[i] # w[j]
            /\ \A i, j \in 1..n :
                   i < j => ~TextLess(w[i].timestamp, w[j].timestamp)
            /\ \A e \in logs \ Range(w) : \A i \in 1..n :
                   ~TextLess(w[i].timestamp, e.timestamp)}

\* r is made of the first limit entries of w whose user is username, in
\* the order of w
FirstOfUser(r, w, username, limit) ==
    LET pos == {i \in 1..Len(w) : w[i].user = username}
        m == Min(limit, Cardinality(pos))
    IN /\ Len(r) = m
       /\ \A j \in 1..m : \E i \in pos :
              /\ r[j] = w[i]
              /\ Cardinality({h \in pos : h < i}) = j - 1

\* C11: for every user name and every limit >= 0, each result of
\* get_logs_by_user(username, limit) is made of the first limit entries, in
\* the order of get_logs, of those among the 2 * limit most recent entries
\* whose user equals username exactly. So when the log holds at most
\* 2 * limit entries the result holds every entry of that user, up to
\* limit of them; and when fewer than limit of the user's entries lie
\* among the 2 * limit most recent, the result is shorter than limit
\* whatever lies further back.
C11_ByUserWithinWindow ==
    \A username \in QueryUsers : \A limit \in QueryLimits :
        \A r \in get_logs_by_user(username, limit) :
            /\ \E w \in MostRecent(2 * limit) :
                   FirstOfUser(r, w, username, limit)
            /\ Cardinality(logs) <= 2 * limit =>
                   Len(r) = Min(limit,
                                Cardinality({e \in logs : e.user = username}))

\* a log of three entries where get_logs_by_user("system", 1) returns
\* nothing although an entry of "system" is stored, and where "bob" gets
\* the latest of his entries
C11_Witness ==
    /\ Cardinality(logs) = 3
    /\ \E e \in logs : e.user = "system"
    /\ \A r \in get_logs_by_user("system", 1) : r = <<>>
    /\ \A r \in get_logs_by_user("bob", 1) : Len(r) = 1
    /\ \A r \in get_logs_by_user("BOB", 1) : r = <<>>

\* C12: for every limit, negative ones included, each result of
\* get_logs(limit) and of get_recent_logs(limit) holds at most limit entries
\* (none when limit is negative), ordered by timestamp descending, and they
\* are the min(limit, number of entries) entries with the greatest
\* timestamps.
C12_AtMostLimitMostRecent ==
    \A limit \in AnyLimits :
        \A r \in get_logs(limit) \cup get_recent_logs(limit) :
            /\ Len(r) <= (IF limit < 0 THEN 0 ELSE limit)
            /\ r \in MostRecent(IF limit < 0 THEN 0 ELSE limit)

\* the terms searched for: the empty term, texts that occur in a stored
\* name, SKU or category, one that occurs nowhere, one that differs from a
\* name in case only, and the two pattern characters
SearchTerms == {"", "Pen", "en", "A1", "Cat", "Z", "pen", "%", "_"}

\* C14: for every term, the empty one and those holding % or _ included,
\* each result of search_products(term) holds exactly the stored products
\* in whose name, SKU or category the term occurs as a substring, each
\* once, ordered by name ascending.
C14_SearchIsSubstring ==
    \A term \in SearchTerms :
        \A r \in search_products(term) \cup PMSearchProducts(term) :
            /\ Range(r) = {q \in products : \/ Contains(q.name, term)
                                            \/ Contains(q.sku, term)
                                            \/ Contains(q.category, term)}
            /\ Len(r) = Cardinality(Range(r))
            /\ \A i, j \in 1..Len(r) :
                   i < j => ~TextLess(Codes(r[j].name), Codes(r[i].name))

\* C15: every StorageManager operation closes the connection it opened on
\* every exit path, an engine error raised by the statement included: once
\* a call has returned or raised, none of the connections it opened is
\* still open.
C15_ConnectionsReleased ==
    open_conns = 0
====
